---- MODULE Spec2Model ----
(***************************************************************************)
(* Model of tracker/utils/pdf_signature.py: the dimension scaler           *)
(* (_scale_dimensions) and the two overlay pipelines                       *)
(* (embed_signature_in_pdf, embed_signature_in_image).                     *)
(*                                                                         *)
(* Python floats are IEEE-754 binary64.  They are modelled bit-exactly:    *)
(* a float is a sign, a 53-bit significand and an exponent, and every      *)
(* arithmetic operation rounds its exact result to nearest, ties to even.  *)
(* Significands do not fit TLC's integers, so they are kept as             *)
(* little-endian sequences of limbs (arbitrary-precision naturals).        *)
(***************************************************************************)
EXTENDS Integers, Sequences, FiniteSets, TLC

(***************************************************************************)
(* Arbitrary-precision naturals: <<>> is 0, a[1] is the low limb, the top  *)
(* limb is never 0.                                                        *)
(***************************************************************************)
LimbBits == 14
LimbBase == 2^LimbBits

\* Significand width of a Python float (sys.float_info.mant_dig).
Prec == 53

Limb(a, i) == IF i <= Len(a) THEN a[i] ELSE 0

RECURSIVE BNorm(_)
BNorm(a) ==
    IF a = <<>> THEN a
    ELSE IF a[Len(a)] = 0 THEN BNorm(SubSeq(a, 1, Len(a) - 1))
    ELSE a

RECURSIVE BFromNat(_)
BFromNat(n) == IF n = 0 THEN <<>> ELSE <<n % LimbBase>> \o BFromNat(n \div LimbBase)

RECURSIVE BToNat(_)
BToNat(a) == IF a = <<>> THEN 0 ELSE a[1] + LimbBase * BToNat(Tail(a))

RECURSIVE BCmpAt(_, _, _)
BCmpAt(a, b, i) ==
    IF i = 0 THEN 0
    ELSE IF a[i] # b[i] THEN (IF a[i] < b[i] THEN -1 ELSE 1)
    ELSE BCmpAt(a, b, i - 1)

BCmp(a, b) ==
    IF Len(a) # Len(b) THEN (IF Len(a) < Len(b) THEN -1 ELSE 1)
    ELSE BCmpAt(a, b, Len(a))

RECURSIVE BAddLoop(_, _, _, _, _)
BAddLoop(a, b, i, c, acc) ==
    IF i > Len(a) /\ i > Len(b)
    THEN (IF c = 0 THEN acc ELSE Append(acc, c))
    ELSE LET s == Limb(a, i) + Limb(b, i) + c
         IN  BAddLoop(a, b, i + 1, s \div LimbBase, Append(acc, s % LimbBase))

BAdd(a, b) == BAddLoop(a, b, 1, 0, <<>>)

RECURSIVE BSubLoop(_, _, _, _, _)
BSubLoop(a, b, i, c, acc) ==
    IF i > Len(a) THEN acc
    ELSE LET d == a[i] - Limb(b, i) - c
         IN  IF d < 0 THEN BSubLoop(a, b, i + 1, 1, Append(acc, d + LimbBase))
             ELSE BSubLoop(a, b, i + 1, 0, Append(acc, d))

\* a - b, for a >= b
BSub(a, b) == BNorm(BSubLoop(a, b, 1, 0, <<>>))

RECURSIVE BMulSmallLoop(_, _, _, _, _)
BMulSmallLoop(a, k, i, c, acc) ==
    IF i > Len(a) THEN (IF c = 0 THEN acc ELSE Append(acc, c))
    ELSE LET p == a[i] * k + c
         IN  BMulSmallLoop(a, k, i + 1, p \div LimbBase, Append(acc, p % LimbBase))

\* a * k, for 0 <= k < LimbBase
BMulSmall(a, k) == IF k = 0 THEN <<>> ELSE BMulSmallLoop(a, k, 1, 0, <<>>)

BShlLimbs(a, n) == IF a = <<>> THEN a ELSE [i \in 1..n |-> 0] \o a

RECURSIVE BMulLoop(_, _, _, _)
BMulLoop(a, b, j, acc) ==
    IF j > Len(b) THEN acc
    ELSE BMulLoop(a, b, j + 1, BAdd(acc, BShlLimbs(BMulSmall(a, b[j]), j - 1)))

BMul(a, b) == BMulLoop(a, b, 1, <<>>)

\* a * 2^n
BShl(a, n) == BShlLimbs(BMulSmall(a, 2^(n % LimbBits)), n \div LimbBits)

\* floor(a / 2^n)
BShr(a, n) ==
    LET q == n \div LimbBits
        r == n % LimbBits
        x == IF q >= Len(a) THEN <<>> ELSE SubSeq(a, q + 1, Len(a))
    IN  BNorm([i \in 1..Len(x) |->
                 (x[i] \div 2^r) + (Limb(x, i + 1) % 2^r) * 2^(LimbBits - r)])

RECURSIVE NatBitLen(_)
NatBitLen(n) == IF n = 0 THEN 0 ELSE 1 + NatBitLen(n \div 2)

BBitLen(a) == IF a = <<>> THEN 0 ELSE (Len(a) - 1) * LimbBits + NatBitLen(a[Len(a)])

\* bit n of a (bit 0 is the lowest)
BBit(a, n) == (Limb(a, n \div LimbBits + 1) \div 2^(n % LimbBits)) % 2

\* a is a multiple of 2^n
BLowZero(a, n) == BShl(BShr(a, n), n) = a

(***************************************************************************)
(* binary64 values: sgn * man * 2^exp, man = <<>> (zero) or a natural of   *)
(* exactly Prec bits.  Exponent range is not modelled: every value of the  *)
(* model lies far inside it.                                                *)
(***************************************************************************)
FZero == [sgn |-> 1, man |-> <<>>, exp |-> 0]

\* q of Prec or Prec + 1 bits (the latter after a carry out of rounding up)
FPack(sgn, q, e) ==
    IF BBitLen(q) > Prec
    THEN [sgn |-> sgn, man |-> BShr(q, 1), exp |-> e + 1]
    ELSE [sgn |-> sgn, man |-> q, exp |-> e]

\* m has d > 0 bits too many and q = floor(m / 2^d): round to nearest, ties to even
FRoundCut(sgn, m, e, sticky, d, q) ==
    FPack(sgn,
          IF BBit(m, d - 1) = 1 /\ (sticky \/ BBit(q, 0) = 1 \/ ~BLowZero(m, d - 1))
          THEN BAdd(q, <<1>>) ELSE q,
          e + d)

FRoundLen(sgn, m, e, sticky, len) ==
    IF len <= Prec
    THEN [sgn |-> sgn, man |-> BShl(m, Prec - len), exp |-> e - (Prec - len)]
    ELSE FRoundCut(sgn, m, e, sticky, len - Prec, BShr(m, len - Prec))

\* Round sgn * m * 2^e (plus a positive amount below one unit of m when
\* sticky) to nearest, ties to even.
FRound(sgn, m, e, sticky) ==
    IF m = <<>> THEN FZero ELSE FRoundLen(sgn, m, e, sticky, BBitLen(m))

\* float(n) for a Python int n
FromInt(n) == FRound(IF n < 0 THEN -1 ELSE 1, BFromNat(IF n < 0 THEN -n ELSE n), 0, FALSE)

FMul(a, b) ==
    IF a.man = <<>> \/ b.man = <<>> THEN FZero
    ELSE FRound(a.sgn * b.sgn, BMul(a.man, b.man), a.exp + b.exp, FALSE)

\* Long division, one quotient bit per step: st = <<remainder, quotient>>
\* with remainder < 2b.  After n steps: <<quotient, remainder # 0>>.
RECURSIVE DivLoop(_, _, _)
DivLoop(st, b, n) ==
    IF n = 0 THEN <<st[2], st[1] # <<>>>>
    ELSE IF BCmp(st[1], b) >= 0
         THEN DivLoop(<<BMulSmall(BSub(st[1], b), 2), BAdd(BMulSmall(st[2], 2), <<1>>)>>, b, n - 1)
         ELSE DivLoop(<<BMulSmall(st[1], 2), BMulSmall(st[2], 2)>>, b, n - 1)

\* qr = <<quotient, remainder # 0>>
FRoundQuotient(sgn, qr, e) == FRound(sgn, qr[1], e, qr[2])

\* a / b, b nonzero
FDiv(a, b) ==
    IF a.man = <<>> THEN FZero
    ELSE FRoundQuotient(a.sgn * b.sgn, DivLoop(<<a.man, <<>>>>, b.man, Prec + 4),
                        a.exp - b.exp - (Prec + 3))

\* sign of a - b
FCmp(a, b) ==
    IF a.man = <<>> /\ b.man = <<>> THEN 0
    ELSE IF a.man = <<>> THEN -b.sgn
    ELSE IF b.man = <<>> THEN a.sgn
    ELSE IF a.sgn # b.sgn THEN a.sgn
    ELSE IF a.exp # b.exp THEN (IF a.exp > b.exp THEN a.sgn ELSE -a.sgn)
    ELSE a.sgn * BCmp(a.man, b.man)

FNeg(a) == IF a.man = <<>> THEN a ELSE [a EXCEPT !.sgn = -a.sgn]

\* a + b for nonzero a, b whose significands ma, mb are aligned to exponent e
XAddAligned(a, b, e, ma, mb) ==
    IF a.sgn = b.sgn THEN [sgn |-> a.sgn, man |-> BAdd(ma, mb), exp |-> e]
    ELSE IF BCmp(ma, mb) = 0 THEN FZero
    ELSE IF BCmp(ma, mb) > 0 THEN [sgn |-> a.sgn, man |-> BSub(ma, mb), exp |-> e]
    ELSE [sgn |-> b.sgn, man |-> BSub(mb, ma), exp |-> e]

XAddAt(a, b, e) == XAddAligned(a, b, e, BShl(a.man, a.exp - e), BShl(b.man, b.exp - e))

\* a + b exactly: an unrounded value (man of any width)
XAdd(a, b) ==
    IF a.man = <<>> THEN b
    ELSE IF b.man = <<>> THEN a
    ELSE XAddAt(a, b, IF a.exp < b.exp THEN a.exp ELSE b.exp)

FRoundExact(x) == FRound(x.sgn, x.man, x.exp, FALSE)

FAdd(a, b) == FRoundExact(XAdd(a, b))

FSub(a, b) == FAdd(a, FNeg(b))

\* Python's min(a, b) / max(a, b): the first argument unless the second is
\* strictly smaller / larger.
FMin(a, b) == IF FCmp(b, a) < 0 THEN b ELSE a
FMax(a, b) == IF FCmp(b, a) > 0 THEN b ELSE a

\* int(a): truncation toward zero
FTrunc(a) ==
    IF a.man = <<>> THEN 0
    ELSE a.sgn * BToNat(IF a.exp >= 0 THEN BShl(a.man, a.exp) ELSE BShr(a.man, -a.exp))

\* the float written n/d as a decimal literal (correctly rounded quotient)
Lit(n, d) == FDiv(FromInt(n), FromInt(d))

(***************************************************************************)
(* Python values.  A str is a sequence of one-character strings; an        *)
(* Optional[str] is <<>> (None) or <<s>>.                                   *)
(***************************************************************************)
None == <<>>
Some(s) == <<s>>

\* Python truthiness of an Optional[str]: None and "" are falsy.
Truthy(o) == o # None /\ o[1] # <<>>

\* a or b, for Optional[str]
Or(a, b) == IF Truthy(a) THEN a ELSE b

LowerCase == <<"a", "b", "c", "d", "e", "f", "g", "h", "i", "j", "k", "l", "m",
               "n", "o", "p", "q", "r", "s", "t", "u", "v", "w", "x", "y", "z">>
UpperCase == <<"A", "B", "C", "D", "E", "F", "G", "H", "I", "J", "K", "L", "M",
               "N", "O", "P", "Q", "R", "S", "T", "U", "V", "W", "X", "Y", "Z">>

UpperChar(c) ==
    IF \E i \in DOMAIN LowerCase : LowerCase[i] = c
    THEN UpperCase[CHOOSE i \in DOMAIN LowerCase : LowerCase[i] = c]
    ELSE c

\* str.upper()
Upper(s) == [i \in 1..Len(s) |-> UpperChar(s[i])]

PNG  == <<"P", "N", "G">>
JPEG == <<"J", "P", "E", "G">>
JPG  == <<"J", "P", "G">>
GIF  == <<"G", "I", "F">>

SignatureEmbedError == "SignatureEmbedError"

Raise(kind, msg, calls) == [kind |-> kind, msg |-> msg, calls |-> calls]

(***************************************************************************)
(* _scale_dimensions                                                       *)
(***************************************************************************)
invalid_dimensions_strict(image_width, image_height) == image_width < 0 \/ image_height < 0

invalid_dimensions(image_width, image_height) == image_width <= 0 \/ image_height <= 0

pick_scale_max(width_ratio, height_ratio) == FMax(width_ratio, height_ratio)

pick_scale(width_ratio, height_ratio) == FMin(width_ratio, height_ratio)

scaled_stretched(image_width, image_height, target_width, target_height, width_ratio, height_ratio, scale) ==
    [kind          |-> "ok",
     target_width  |-> target_width,
     target_height |-> target_height,
     width_ratio   |-> width_ratio,
     height_ratio  |-> height_ratio,
     scaled_width  |-> FMul(FromInt(image_width), width_ratio),
     scaled_height |-> FMul(FromInt(image_height), height_ratio)]

\* lines 37-40; the locals are returned with the result
scaled(image_width, image_height, target_width, target_height, width_ratio, height_ratio, scale) ==
    [kind          |-> "ok",
     target_width  |-> target_width,
     target_height |-> target_height,
     width_ratio   |-> width_ratio,
     height_ratio  |-> height_ratio,
     scaled_width  |-> FMul(FromInt(image_width), scale),
     scaled_height |-> FMul(FromInt(image_height), scale)]

\* lines 35-40
scale_by_ratios(image_width, image_height, target_width, target_height, width_ratio, height_ratio) ==
    scaled(image_width, image_height, target_width, target_height, width_ratio, height_ratio,
           pick_scale(width_ratio, height_ratio))

\* lines 33-40
scale_to_target(image_width, image_height, target_width, target_height) ==
    scale_by_ratios(image_width, image_height, target_width, target_height,
                    FDiv(target_width, FromInt(image_width)),
                    FDiv(target_height, FromInt(image_height)))

scale_dimensions(page_width, page_height, image_width, image_height, max_width_ratio, max_height_ratio) ==
    IF invalid_dimensions(image_width, image_height)
    THEN Raise(SignatureEmbedError, "Signature image has invalid dimensions.", <<>>)
    ELSE scale_to_target(image_width, image_height,
                         FMul(page_width, max_width_ratio),
                         FMul(page_height, max_height_ratio))

(***************************************************************************)
(* embed_signature_in_pdf                                                  *)
(*                                                                         *)
(* A PDF document is what PyPDF2 makes of its bytes: whether PdfReader     *)
(* accepts them (readable), whether the page tree can be read (pages_ok;   *)
(* not so for an encrypted file, whose pages raise on access), and the     *)
(* pages.  A page is its identity, its media box and the overlays merged   *)
(* onto its content.  An image is what Pillow makes of its bytes: whether  *)
(* Image.open identifies it (header_ok), whether its pixel data loads      *)
(* (data_ok; Image.open is lazy, a truncated file fails on convert), and   *)
(* its mode, format and size.                                              *)
(***************************************************************************)
merge_page(page, overlay_page) == [page EXCEPT !.content = Append(@, overlay_page)]

is_final_page_first(index, total_pages) == index = 0

\* line 110: the page the overlay is merged onto (index is 0-based)
is_final_page(index, total_pages) == index = total_pages - 1

x_position_unclamped(margin, page_width, scaled_width) ==
    FSub(FSub(page_width, scaled_width), margin)

\* line 84 (and lines 184-185 of the image pipeline)
x_position(margin, page_width, scaled_width) ==
    FMax(margin, FSub(FSub(page_width, scaled_width), margin))

pdf_inputs_missing_first_only(pdf_bytes, signature_bytes) ==
    IF pdf_bytes.empty THEN Some("No PDF content provided.") ELSE None

\* lines 52-55: the cause of the empty-input error, or None
pdf_inputs_missing(pdf_bytes, signature_bytes) ==
    IF pdf_bytes.empty THEN Some("No PDF content provided.")
    ELSE IF signature_bytes.empty THEN Some("No signature content provided.")
    ELSE None

PdfCalls == <<"PdfReader", "reader.pages", "Image.open", "convert">>

\* lines 104-117: the overlay merged onto the last page, every page written
pdf_written(pages, page_width, page_height, overlay_page) ==
    [kind |-> "ok",
     calls |-> PdfCalls \o <<"drawImage", "merge_page", "write">>,
     page_width |-> page_width,
     page_height |-> page_height,
     scaled_width |-> overlay_page.width,
     scaled_height |-> overlay_page.height,
     x_position |-> overlay_page.x,
     y_position |-> overlay_page.y,
     overlay_page |-> overlay_page,
     out |-> [i \in 1..Len(pages) |->
                IF is_final_page(i - 1, Len(pages))
                THEN merge_page(pages[i], overlay_page)
                ELSE pages[i]]]

\* lines 84-102: the overlay page holding the signature at (x_position, margin)
pdf_overlay(pages, margin, page_width, page_height, scaled_dims) ==
    IF scaled_dims.kind # "ok" THEN Raise(scaled_dims.kind, scaled_dims.msg, PdfCalls)
    ELSE pdf_written(pages, page_width, page_height,
                     [pagesize |-> <<page_width, page_height>>,
                      x |-> x_position(margin, page_width, scaled_dims.scaled_width),
                      y |-> margin,
                      width |-> scaled_dims.scaled_width,
                      height |-> scaled_dims.scaled_height])

\* lines 71-82: the last page's media box is the canvas
pdf_sign_page(pages, last_page, signature_image, margin, max_width_ratio, max_height_ratio) ==
    pdf_overlay(pages, margin, last_page.mediabox[1], last_page.mediabox[2],
                scale_dimensions(last_page.mediabox[1], last_page.mediabox[2],
                                 signature_image.width, signature_image.height,
                                 max_width_ratio, max_height_ratio))

embed_signature_in_pdf(pdf_bytes, signature_bytes, margin, max_width_ratio, max_height_ratio) ==
    IF pdf_inputs_missing(pdf_bytes, signature_bytes) # None
    THEN Raise(SignatureEmbedError, pdf_inputs_missing(pdf_bytes, signature_bytes)[1], <<>>)
    ELSE IF ~pdf_bytes.readable
    THEN Raise(SignatureEmbedError, "Could not read the provided PDF document.", <<"PdfReader">>)
    ELSE IF ~pdf_bytes.pages_ok
    THEN \* line 62 is outside the try block: PyPDF2's own error escapes
         Raise("PdfReadError", "File has not been decrypted", <<"PdfReader", "reader.pages">>)
    ELSE IF Len(pdf_bytes.pages) = 0
    THEN Raise(SignatureEmbedError, "The PDF has no pages to sign.", <<"PdfReader", "reader.pages">>)
    ELSE IF ~signature_bytes.header_ok \/ ~signature_bytes.data_ok
    THEN Raise(SignatureEmbedError, "Could not decode the signature image.",
               <<"PdfReader", "reader.pages", "Image.open">>
               \o (IF signature_bytes.header_ok THEN <<"convert">> ELSE <<>>))
    ELSE pdf_sign_page(pdf_bytes.pages, pdf_bytes.pages[Len(pdf_bytes.pages)], signature_bytes,
                       margin, max_width_ratio, max_height_ratio)

(***************************************************************************)
(* embed_signature_in_image                                                *)
(***************************************************************************)
KnownFormats == {PNG, JPEG, GIF}

\* Image.save (line 203): Pillow raises KeyError for a format name it does not
\* know and OSError("cannot write mode RGBA as JPEG") for an alpha image as JPEG.
save_outcome(mode, fmt) ==
    IF fmt \notin KnownFormats THEN "KeyError"
    ELSE IF fmt = JPEG /\ mode = "RGBA" THEN "OSError"
    ELSE "ok"

image_inputs_missing(image_bytes, signature_bytes) ==
    IF image_bytes.empty THEN Some("No image content provided.")
    ELSE IF signature_bytes.empty THEN Some("No signature content provided.")
    ELSE None

composed_mode_always_rgb(base_mode) == "RGB"

\* lines 192-196: the mode of the composite that is saved
composed_mode(base_mode) ==
    IF base_mode # "RGBA"
    THEN (IF base_mode \in {"RGB", "L"} THEN base_mode ELSE "RGB")
    ELSE "RGBA"

\* line 172
detected_format(image_format) ==
    IF Upper(Or(image_format, Some(<<>>))[1]) # <<>>
    THEN Some(Upper(Or(image_format, Some(<<>>))[1]))
    ELSE None

\* lines 172 and 197: base_format as it stands at line 200
reconciled_base_format(base_mode, image_format) ==
    IF base_mode # "RGBA" /\ base_mode \notin {"RGB", "L"}
    THEN Or(detected_format(image_format), Some(PNG))
    ELSE detected_format(image_format)

output_fmt_base_first(output_format, base_format) ==
    LET fmt == Upper(Or(Or(base_format, output_format), Some(PNG))[1])
    IN  IF fmt = JPG THEN JPEG ELSE fmt

\* lines 200-202
output_fmt(output_format, base_format) ==
    LET fmt == Upper(Or(Or(output_format, base_format), Some(PNG))[1])
    IN  IF fmt = JPG THEN JPEG ELSE fmt

ImageCalls == <<"Image.open", "Image.open", "convert", "convert">>

\* lines 199-205: encode the composite
image_saved(image_bytes, loc) ==
    IF save_outcome(loc.mode, loc.fmt) # "ok"
    THEN [kind |-> save_outcome(loc.mode, loc.fmt), msg |-> "cannot write image"] @@ loc
    ELSE [kind |-> "ok",
          out |-> [format |-> loc.fmt, mode |-> loc.mode,
                   size |-> <<image_bytes.width, image_bytes.height>>,
                   signature_box |-> <<loc.x, loc.y, loc.sig_width, loc.sig_height>>]] @@ loc

\* lines 184-197: paste offset, mode and format
image_composed(image_bytes, margin, output_format, scaled_dims, sig_width, sig_height) ==
    image_saved(image_bytes,
                [calls |-> ImageCalls \o <<"resize", "paste", "save">>,
                 scaled_width |-> scaled_dims.scaled_width,
                 scaled_height |-> scaled_dims.scaled_height,
                 sig_width |-> sig_width,
                 sig_height |-> sig_height,
                 x |-> FTrunc(x_position(FromInt(margin), FromInt(image_bytes.width),
                                         FromInt(sig_width))),
                 y |-> FTrunc(x_position(FromInt(margin), FromInt(image_bytes.height),
                                         FromInt(sig_height))),
                 mode |-> composed_mode(image_bytes.mode),
                 fmt  |-> output_fmt(output_format,
                                     reconciled_base_format(image_bytes.mode,
                                                            image_bytes.format))])

\* line 182: the signature resized to whole pixels, at least 1x1
image_resized(image_bytes, margin, output_format, scaled_dims) ==
    IF scaled_dims.kind # "ok" THEN Raise(scaled_dims.kind, scaled_dims.msg, ImageCalls)
    ELSE image_composed(image_bytes, margin, output_format, scaled_dims,
                        FTrunc(FMax(FromInt(1), scaled_dims.scaled_width)),
                        FTrunc(FMax(FromInt(1), scaled_dims.scaled_height)))

embed_signature_in_image(image_bytes, signature_bytes, margin, max_width_ratio, max_height_ratio, output_format) ==
    IF image_inputs_missing(image_bytes, signature_bytes) # None
    THEN Raise(SignatureEmbedError, image_inputs_missing(image_bytes, signature_bytes)[1], <<>>)
    ELSE IF ~image_bytes.header_ok
    THEN Raise(SignatureEmbedError, "Could not read the provided image document.", <<"Image.open">>)
    ELSE IF ~signature_bytes.header_ok \/ ~signature_bytes.data_ok
    THEN Raise(SignatureEmbedError, "Could not decode the signature image.",
               <<"Image.open", "Image.open">>
               \o (IF signature_bytes.header_ok THEN <<"convert">> ELSE <<>>))
    ELSE IF ~image_bytes.data_ok
    THEN \* line 173 is outside the try blocks: Pillow's own error escapes
         Raise("OSError", "image file is truncated", ImageCalls)
    ELSE image_resized(image_bytes, margin, output_format,
                       scale_dimensions(FromInt(image_bytes.width), FromInt(image_bytes.height),
                                        signature_bytes.width, signature_bytes.height,
                                        max_width_ratio, max_height_ratio))

VARIABLES op, args, pc, ret

vars == <<op, args, pc, ret>>

(***************************************************************************)
(* Inputs                                                                  *)
(***************************************************************************)
MaxImg == 11

\* (max_width_ratio, max_height_ratio): the defaults, and no shrinking
RatioPairs == {<<Lit(3, 10), Lit(2, 10)>>, <<FromInt(1), FromInt(1)>>}

ScaleCanvases == {<<FromInt(612), FromInt(792)>>, <<FromInt(100), FromInt(80)>>,
                  <<FromInt(1), FromInt(1)>>}

ScaleArgs ==
    [page_width_height : ScaleCanvases, image_width : -1..MaxImg,
     image_height : -1..MaxImg, ratios : RatioPairs]

NoRet == [kind |-> "none"]

InitScale ==
    /\ op = "scale_dimensions"
    /\ args \in ScaleArgs
    /\ pc = "start"
    /\ ret = NoRet

ScaleDimensions ==
    /\ pc = "start"
    /\ op = "scale_dimensions"
    /\ ret' = scale_dimensions(args.page_width_height[1], args.page_width_height[2],
                               args.image_width, args.image_height,
                               args.ratios[1], args.ratios[2])
    /\ pc' = "done"
    /\ UNCHANGED <<op, args>>

NextScale == ScaleDimensions

SpecScale == InitScale /\ [][NextScale]_vars

MaxPages == 3

\* US Letter and A4, in points
PdfBoxes == {<<FromInt(612), FromInt(792)>>, <<Lit(595276, 1000), Lit(84189, 100)>>}

Page(i, box) == [id |-> i, mediabox |-> box, content |-> <<>>]

PdfDocs ==
    {[empty |-> TRUE,  readable |-> FALSE, pages_ok |-> FALSE, pages |-> <<>>],
     [empty |-> FALSE, readable |-> FALSE, pages_ok |-> FALSE, pages |-> <<>>],
     [empty |-> FALSE, readable |-> TRUE,  pages_ok |-> FALSE, pages |-> <<>>]}
    \cup {[empty |-> FALSE, readable |-> TRUE, pages_ok |-> TRUE,
           pages |-> [i \in 1..n |-> Page(i, boxes[i])]] :
          n \in {0}, boxes \in {<<>>}}
    \cup UNION {{[empty |-> FALSE, readable |-> TRUE, pages_ok |-> TRUE,
                  pages |-> [i \in 1..n |-> Page(i, boxes[i])]] :
                 boxes \in [1..n -> PdfBoxes]} : n \in 1..MaxPages}

Sig(empty, header_ok, data_ok, w, h) ==
    [empty |-> empty, header_ok |-> header_ok, data_ok |-> data_ok, width |-> w, height |-> h]

BadSigs == {Sig(TRUE, FALSE, FALSE, 0, 0), Sig(FALSE, FALSE, FALSE, 0, 0),
            Sig(FALSE, TRUE, FALSE, 300, 100)}

PdfSigs == BadSigs \cup {Sig(FALSE, TRUE, TRUE, wh[1], wh[2]) :
                         wh \in {<<300, 100>>, <<100, 300>>, <<11, 1>>, <<1, 19>>}}

PdfMargins == {FromInt(36), FZero, FromInt(400)}

PdfArgs ==
    [pdf_bytes : PdfDocs, signature_bytes : PdfSigs, margin : PdfMargins, ratios : RatioPairs]

InitPdf ==
    /\ op = "embed_signature_in_pdf"
    /\ args \in PdfArgs
    /\ pc = "start"
    /\ ret = NoRet

EmbedSignatureInPdf ==
    /\ pc = "start"
    /\ op = "embed_signature_in_pdf"
    /\ ret' = embed_signature_in_pdf(args.pdf_bytes, args.signature_bytes, args.margin,
                                     args.ratios[1], args.ratios[2])
    /\ pc' = "done"
    /\ UNCHANGED <<op, args>>

NextPdf == EmbedSignatureInPdf

SpecPdf == InitPdf /\ [][NextPdf]_vars

Img(empty, header_ok, data_ok, mode, format, w, h) ==
    [empty |-> empty, header_ok |-> header_ok, data_ok |-> data_ok,
     mode |-> mode, format |-> format, width |-> w, height |-> h]

Modes == {"RGBA", "RGB", "L", "P", "CMYK"}
ImageFormats == {None, Some(PNG), Some(JPEG), Some(GIF)}
ImageSizes == {<<100, 80>>, <<20, 20>>}

BaseImages ==
    {Img(TRUE, FALSE, FALSE, "RGB", None, 0, 0), Img(FALSE, FALSE, FALSE, "RGB", None, 0, 0),
     Img(FALSE, TRUE, FALSE, "RGB", Some(JPEG), 100, 80)}
    \cup {Img(FALSE, TRUE, TRUE, m, f, wh[1], wh[2]) :
          m \in Modes, f \in ImageFormats, wh \in ImageSizes}

ImageSigs == BadSigs \cup {Sig(FALSE, TRUE, TRUE, wh[1], wh[2]) :
                           wh \in {<<300, 100>>, <<11, 1>>}}

ImageMargins == {12, 0}

OutputFormats ==
    {None, Some(<<>>), Some(<<"j", "p", "g">>), Some(JPG), Some(<<"J", "p", "g">>),
     Some(<<"p", "n", "g">>), Some(JPEG), Some(<<"x", "y", "z">>)}

ImageArgs ==
    [image_bytes : BaseImages, signature_bytes : ImageSigs, margin : ImageMargins,
     ratios : RatioPairs, output_format : OutputFormats]

InitImage ==
    /\ op = "embed_signature_in_image"
    /\ args \in ImageArgs
    /\ pc = "start"
    /\ ret = NoRet

EmbedSignatureInImage ==
    /\ pc = "start"
    /\ op = "embed_signature_in_image"
    /\ ret' = embed_signature_in_image(args.image_bytes, args.signature_bytes, args.margin,
                                       args.ratios[1], args.ratios[2], args.output_format)
    /\ pc' = "done"
    /\ UNCHANGED <<op, args>>

NextImage == EmbedSignatureInImage

SpecImage == InitImage /\ [][NextImage]_vars

\* every entry point of the module
Init == InitScale \/ InitPdf \/ InitImage

Next == ScaleDimensions \/ EmbedSignatureInPdf \/ EmbedSignatureInImage

Spec == Init /\ [][Next]_vars

(***************************************************************************)
(* Exact (unrounded) arithmetic on float values, used to state the claims. *)
(***************************************************************************)
XAbs(x) == [x EXCEPT !.sgn = 1]
XScale2(x, k) == IF x.man = <<>> THEN x ELSE [x EXCEPT !.exp = @ + k]
XMulNat(x, n) == IF n = 0 \/ x.man = <<>> THEN FZero ELSE [x EXCEPT !.man = BMul(@, BFromNat(n))]
\* sign of x - y
XSign(x) == IF x.man = <<>> THEN 0 ELSE x.sgn
XCmp(x, y) == XSign(XAdd(x, FNeg(y)))
\* one unit in the last place, relative: 2^-(Prec-1)
\* a <= b * (1 + 2^-(Prec-1))
LeqTol(a, b) == XCmp(XAdd(a, FNeg(b)), XScale2(XAbs(b), 1 - Prec)) <= 0
\* |a - b| <= |b| * 2^-(Prec-1)
EqTol(a, b) == XCmp(XAbs(XAdd(a, FNeg(b))), XScale2(XAbs(b), 1 - Prec)) <= 0

ScaleDone == pc = "done" /\ op = "scale_dimensions"
ScaleOk == ScaleDone /\ ret.kind = "ok"
PositiveCanvas ==
    /\ XSign(args.page_width_height[1]) > 0 /\ XSign(args.page_width_height[2]) > 0
    /\ XSign(args.ratios[1]) > 0 /\ XSign(args.ratios[2]) > 0

\* C1 as stated: the scaled size never exceeds either bound and equals the
\* bound on the binding axis.
C1_WithinBoundsExact ==
    (ScaleOk /\ PositiveCanvas) =>
        /\ FCmp(ret.scaled_width, ret.target_width) <= 0
        /\ FCmp(ret.scaled_height, ret.target_height) <= 0
        /\ FCmp(ret.width_ratio, ret.height_ratio) <= 0 => ret.scaled_width = ret.target_width
        /\ FCmp(ret.height_ratio, ret.width_ratio) <= 0 => ret.scaled_height = ret.target_height

\* C1 amended: the scaled size exceeds neither bound by more than one rounding
\* step (a relative 2^-52), and on the binding axis it is within that
\* distance of the bound.
C1_WithinBoundsTol ==
    (ScaleOk /\ PositiveCanvas) =>
        /\ LeqTol(ret.scaled_width, ret.target_width)
        /\ LeqTol(ret.scaled_height, ret.target_height)
        /\ FCmp(ret.width_ratio, ret.height_ratio) <= 0 => EqTol(ret.scaled_width, ret.target_width)
        /\ FCmp(ret.height_ratio, ret.width_ratio) <= 0 => EqTol(ret.scaled_height, ret.target_height)

\* a call where rounding pushed the scaled height above its bound
C1_Witness ==
    /\ ScaleOk /\ PositiveCanvas
    /\ FCmp(ret.scaled_height, ret.target_height) > 0
    /\ FCmp(ret.height_ratio, ret.width_ratio) < 0

\* C2 as stated: scaledWidth * imgHeight = scaledHeight * imgWidth, exactly.
C2_AspectExact ==
    (ScaleOk /\ PositiveCanvas) =>
        XCmp(XMulNat(ret.scaled_width, args.image_height),
             XMulNat(ret.scaled_height, args.image_width)) = 0

\* C2 amended: the cross products agree within a relative 2^-52 (the
\* floating tolerance of two roundings).
C2_AspectTol ==
    (ScaleOk /\ PositiveCanvas) =>
        EqTol(XMulNat(ret.scaled_width, args.image_height),
              XMulNat(ret.scaled_height, args.image_width))

\* a call on a non-square image whose cross products differ
C2_Witness ==
    /\ ScaleOk /\ PositiveCanvas
    /\ args.image_width # args.image_height
    /\ XCmp(XMulNat(ret.scaled_width, args.image_height),
            XMulNat(ret.scaled_height, args.image_width)) # 0

\* C9: _scale_dimensions raises the invalid-dimensions SignatureEmbedError
\* exactly when image_width <= 0 or image_height <= 0, and then returns no
\* dimensions; otherwise it returns both.
C9_FailsIffNonPositive ==
    ScaleDone =>
        IF args.image_width <= 0 \/ args.image_height <= 0
        THEN /\ ret.kind = SignatureEmbedError
             /\ ret.msg = "Signature image has invalid dimensions."
             /\ "scaled_width" \notin DOMAIN ret /\ "scaled_height" \notin DOMAIN ret
        ELSE /\ ret.kind = "ok"
             /\ {"scaled_width", "scaled_height"} \subseteq DOMAIN ret

\* a zero-width image with a positive height was rejected
C9_Witness ==
    /\ ScaleDone /\ args.image_width = 0 /\ args.image_height > 0
    /\ ret.kind = SignatureEmbedError

PdfDone == pc = "done" /\ op = "embed_signature_in_pdf"
PdfOk == PdfDone /\ ret.kind = "ok"
ImageDone == pc = "done" /\ op = "embed_signature_in_image"
ImageOk == ImageDone /\ ret.kind = "ok"
\* the call got as far as choosing the mode and format to encode
ImageEncoded == ImageDone /\ "fmt" \in DOMAIN ret

\* C3: a successful embed_signature_in_pdf returns the n input pages in
\* order, pages 1..n-1 unchanged, and the overlay merged onto page n alone.
C3_OnlyLastPageSigned ==
    PdfOk =>
        LET pages == args.pdf_bytes.pages
            n     == Len(pages)
        IN  /\ n >= 1
            /\ Len(ret.out) = n
            /\ \A i \in 1..n : ret.out[i].id = pages[i].id
            /\ \A i \in 1..(n - 1) : ret.out[i] = pages[i]
            /\ ret.out[n].content = pages[n].content \o <<ret.overlay_page>>
            /\ ret.out[n].mediabox = pages[n].mediabox

\* a document of several pages was signed on its last page
C3_Witness ==
    /\ PdfOk
    /\ Len(args.pdf_bytes.pages) >= 2
    /\ ret.out[Len(ret.out)].content # <<>>
    /\ ret.out[1].content = <<>>

\* C4: every failing call of either pipeline surfaces as SignatureEmbedError
\* and nothing else, and a call returns an output buffer exactly when it
\* does not fail.
C4_SingleErrorKind ==
    (PdfDone \/ ImageDone) =>
        /\ ret.kind \in {"ok", SignatureEmbedError}
        /\ ret.kind = "ok" <=> "out" \in DOMAIN ret

DocumentBytes ==
    IF op = "embed_signature_in_pdf" THEN args.pdf_bytes ELSE args.image_bytes

\* C5: with empty document bytes or empty signature bytes either pipeline
\* fails with the 'No ... content provided.' SignatureEmbedError, whatever the
\* other buffer holds, before any parsing or decoding call is made.
C5_EmptyInputRejectedFirst ==
    ((PdfDone \/ ImageDone) /\ (DocumentBytes.empty \/ args.signature_bytes.empty)) =>
        /\ ret.kind = SignatureEmbedError
        /\ ret.calls = <<>>
        /\ ret.msg = (IF ~DocumentBytes.empty THEN "No signature content provided."
                      ELSE IF op = "embed_signature_in_pdf" THEN "No PDF content provided."
                      ELSE "No image content provided.")

\* an unreadable, non-empty PDF with an empty signature was rejected as empty input
C5_Witness ==
    /\ PdfDone
    /\ ~args.pdf_bytes.empty /\ ~args.pdf_bytes.readable
    /\ args.signature_bytes.empty
    /\ ret.msg = "No signature content provided."

LastPage == args.pdf_bytes.pages[Len(args.pdf_bytes.pages)]

\* the worked example: US Letter, a 300x100 signature, ratios 0.3/0.2, margin 36
IsLetterExample ==
    /\ LastPage.mediabox = <<FromInt(612), FromInt(792)>>
    /\ args.signature_bytes.width = 300 /\ args.signature_bytes.height = 100
    /\ args.ratios = <<Lit(3, 10), Lit(2, 10)>>
    /\ args.margin = FromInt(36)

PlacementRule ==
    LET free == FSub(FSub(ret.page_width, ret.scaled_width), args.margin)
    IN  /\ FCmp(ret.x_position, args.margin) >= 0
        /\ FCmp(ret.x_position, free) >= 0
        /\ ret.x_position \in {args.margin, free}
        /\ ret.y_position = args.margin
        /\ ret.overlay_page.x = ret.x_position /\ ret.overlay_page.y = ret.y_position

\* C6 as stated: x = max(margin, canvasWidth - scaledWidth - margin) >= margin,
\* y = margin, and the worked example gives exactly 183.6 x 61.2 at (392.4, 36).
C6_PlacementExact ==
    PdfOk =>
        /\ PlacementRule
        /\ IsLetterExample =>
              /\ ret.scaled_width = Lit(1836, 10)
              /\ ret.scaled_height = Lit(612, 10)
              /\ ret.x_position = Lit(3924, 10)
              /\ ret.y_position = FromInt(36)

\* C6 amended: the same placement; in the worked example the scaled height is
\* 61.2 only up to rounding (one unit in the last place).
C6_PlacementTol ==
    PdfOk =>
        /\ PlacementRule
        /\ IsLetterExample =>
              /\ ret.scaled_width = Lit(1836, 10)
              /\ EqTol(ret.scaled_height, Lit(612, 10))
              /\ ret.x_position = Lit(3924, 10)
              /\ ret.y_position = FromInt(36)

\* a signature as wide as the page: the free space is left of the margin and
\* x is held at the margin
C6_Witness ==
    /\ PdfOk
    /\ ret.scaled_width = ret.page_width
    /\ FCmp(args.margin, FZero) > 0
    /\ FCmp(FSub(FSub(ret.page_width, ret.scaled_width), args.margin), args.margin) < 0
    /\ ret.x_position = args.margin

\* C7: in a successful embed_signature_in_image the pasted signature lies
\* inside the image with the margin kept on every side.
C7_SignatureInsideBounds ==
    ImageOk =>
        /\ args.margin <= ret.x
        /\ ret.x + ret.sig_width + args.margin <= args.image_bytes.width
        /\ args.margin <= ret.y
        /\ ret.y + ret.sig_height + args.margin <= args.image_bytes.height

EqNoCase(a, b) == Len(a) = Len(b) /\ \A i \in 1..Len(a) : UpperChar(a[i]) = UpperChar(b[i])
NoLowerCase(a) == \A i \in 1..Len(a) : \A j \in DOMAIN LowerCase : a[i] # LowerCase[j]
FormatRequested == args.output_format # None /\ args.output_format[1] # <<>>

\* C8: the encoding format is the requested output_format if one is given,
\* else the base image's detected format, else PNG; upper-cased, with JPG in
\* any letter case turned into JPEG.
C8_FormatPrecedence ==
    ImageEncoded =>
        LET chosen == IF FormatRequested THEN args.output_format[1]
                      ELSE IF args.image_bytes.format # None THEN args.image_bytes.format[1]
                      ELSE PNG
        IN  /\ NoLowerCase(ret.fmt)
            /\ ret.fmt # JPG
            /\ IF EqNoCase(chosen, JPG) THEN ret.fmt = JPEG ELSE EqNoCase(ret.fmt, chosen)

\* a PNG base image re-encoded on request as "Jpg" was saved as JPEG
C8_Witness ==
    /\ ImageOk
    /\ args.output_format = Some(<<"J", "p", "g">>)
    /\ args.image_bytes.format = Some(PNG)
    /\ ret.out.format = JPEG

ModeRule ==
    /\ args.image_bytes.mode = "RGBA" => ret.mode = "RGBA"
    /\ args.image_bytes.mode \in {"RGB", "L"} => ret.mode = args.image_bytes.mode
    /\ args.image_bytes.mode \notin {"RGBA", "RGB", "L"} => ret.mode = "RGB"

\* C10 as stated: RGBA stays, RGB and L are restored, any other mode becomes
\* RGB and then, with no output format requested, the format is PNG.
C10_ModeAndPngDefault ==
    ImageEncoded =>
        /\ ModeRule
        /\ (args.image_bytes.mode \notin {"RGBA", "RGB", "L"} /\ ~FormatRequested)
              => ret.fmt = PNG

\* C10 amended: the same modes; with no output format requested the format
\* of an other-mode image is its detected format, and PNG only when none
\* was detected.
C10_ModeAndDetectedFormat ==
    ImageEncoded =>
        /\ ModeRule
        /\ (args.image_bytes.mode \notin {"RGBA", "RGB", "L"} /\ ~FormatRequested)
              => ret.fmt = (IF args.image_bytes.format = None THEN PNG
                            ELSE args.image_bytes.format[1])

\* a palette image of unknown format, no format requested: saved as RGB PNG
C10_Witness ==
    /\ ImageOk
    /\ args.image_bytes.mode = "P"
    /\ args.image_bytes.format = None
    /\ args.output_format = None
    /\ ret.out.mode = "RGB" /\ ret.out.format = PNG
====
